---- MODULE Spec2Model ----
(***************************************************************************)
(* A model of the consistent-hashing ring of src/src/consistant.rs:        *)
(* struct Consistant { replicas_num, circle, members, sorted_keys, lock }  *)
(* with its operations count, add, get, get_n and remove.                  *)
(*                                                                         *)
(* Strings are sequences of one-character strings.  The ring is owned by   *)
(* one caller at a time (add and remove take &mut self, and Rc<String>     *)
(* makes the struct neither Send nor Sync), so the model has one thread of *)
(* control whose position is pc.                                           *)
(***************************************************************************)
EXTENDS Integers, Sequences, FiniteSets, TLC

\* ------------------------------------------------------------------ bounds

\* get_n is called with n in 0..MaxN.
MaxN == 3

\* Node names handed to add and remove.  With "a" and "a1" in use,
\* "a" ++ "10" and "a1" ++ "0" are the same string once replicas_num > 10.
Names == { <<"a">>, <<"a", "1">>, <<"b">> }

\* Keys handed to get and get_n.  "a0", "a8" and "b0" are also virtual-point
\* names, so that a key's hash can be equal to a point of the ring.
Keys == { <<"a", "0">>, <<"a", "8">>, <<"b", "0">>, <<"k">> }

\* replicas_num of Consistant::default().
DefaultReplicas == 20

\* Values of replicas_num the ring is constructed with: new(1), new(2),
\* new(3) and default().  replicas_num = 0 is left out (the caller is to
\* pass a positive number).
ReplicaChoices == { 1, 2, 3, DefaultReplicas }

\* The checksum functions the injected hash is drawn from: a multiplier k and
\* a prime modulus p.  See checksum_ieee.
HashParams == { [k |-> 9973, p |-> 32749], [k |-> 3, p |-> 13] }

\* ------------------------------------------------------------- strings

Digits == << "0", "1", "2", "3", "4", "5", "6", "7", "8", "9" >>

\* i.to_string(): the decimal representation of a usize.
RECURSIVE to_string(_)
to_string(i) ==
    IF i < 10 THEN << Digits[i + 1] >>
    ELSE to_string(i \div 10) \o << Digits[(i % 10) + 1] >>

\* String::from(element) + &i.to_string()
generate_element_name(element, i) == element \o to_string(i)

\* The byte of a character (as_bytes()).
ByteOf(c) ==
    CASE c = "0" -> 48 [] c = "1" -> 49 [] c = "2" -> 50 [] c = "3" -> 51
      [] c = "4" -> 52 [] c = "5" -> 53 [] c = "6" -> 54 [] c = "7" -> 55
      [] c = "8" -> 56 [] c = "9" -> 57
      [] c = "a" -> 97 [] c = "b" -> 98 [] c = "k" -> 107

\* The remainder of the byte string, read as a base-256 number, modulo p.
RECURSIVE PolyRem(_, _, _)
PolyRem(bytes, p, acc) ==
    IF bytes = << >> THEN acc
    ELSE PolyRem(Tail(bytes), p, (acc * 256 + ByteOf(Head(bytes))) % p)

\* crc::crc32::checksum_ieee, the external hash: a deterministic function
\* from byte strings to u32.  The crate is not part of the repository; the
\* model draws the function from the family HashParams (variable hp): a
\* polynomial remainder of the bytes, scrambled by a multiplier.
checksum_ieee_with(h, bytes) == (PolyRem(bytes, h.p, 0) * h.k) % h.p


\* ---------------------------------------------------------------- state

VARIABLES
    hp,            \* the checksum function in use (an element of HashParams)
    replicas_num,  \* Consistant.replicas_num
    circle,        \* Consistant.circle: HashMap<u32, Rc<String>>
    members,       \* Consistant.members: the key set of HashMap<Rc<String>, ()>
    sorted_keys,   \* Consistant.sorted_keys: Vec<u32>
    lock,          \* Consistant.lock: "free", "read" or "write" (a live guard)
    pc,            \* position of the caller: idle, call (at the operation's
                   \* lock statement, the guard not yet acquired), locked,
                   \* body, count1 / count2 (get_n at the lock statement of its
                   \* first / second self.count()), count1_locked /
                   \* count2_locked, first, loop, panicked
    call,          \* the call in progress or, when idle, the last call:
                   \* [op, name, n]
    start,         \* get_n's local start (an index into sorted_keys, from 0)
    res,           \* get_n's local res
    count,         \* get_n's local count
    ret,           \* the value returned by the last call, Pending while a
                   \* call is in progress
    log,           \* the last call (in progress or completed) and, when
                   \* that is an add or a remove, the call before it; newest
                   \* first, each with the ring as it was when the call began
    added,         \* the names whose most recent completed add or remove was
                   \* an add
    collided,      \* whether an add has inserted a virtual point whose hash is
                   \* also the hash of another virtual point of the ring
    last           \* the result of the call before the current one when it
                   \* was the same read with the same arguments, else Pending

vars == << hp, replicas_num, circle, members, sorted_keys, lock, pc, call,
           start, res, count, ret, log, added, collided, last >>

checksum_ieee(bytes) == checksum_ieee_with(hp, bytes)

\* The three collections of the struct, as one value.
Ring == [circle |-> circle, sorted_keys |-> sorted_keys, members |-> members]

NoCall == [op |-> "none", name |-> << >>, n |-> 0]

\* The value a panic of unreachable!() is recorded as.
Unreachable == << "unreachable!()" >>

None == [kind |-> "None", val |-> << >>]
Some(v) == [kind |-> "Some", val |-> v]
Unit == [kind |-> "unit", val |-> << >>]
Panic == [kind |-> "panic", val |-> Unreachable]
Pending == [kind |-> "pending", val |-> << >>]

Min(x, y) == IF x < y THEN x ELSE y

\* ------------------------------------------------------ Vec and HashMap

\* sort with the bug of leaving the vector as it is.
sort_Unsorted(v) == v

\* Vec::sort on a Vec<u32>: ascending, duplicates kept.  Element j of v goes
\* to the place given by the number of elements that sort before it.
sort(v) ==
    LET n == Len(v)
        place == [j \in 1..n |->
                    1 + Cardinality({ m \in 1..n :
                            v[m] < v[j] \/ (v[m] = v[j] /\ m < j) })]
    IN  [i \in 1..n |-> v[CHOOSE j \in 1..n : place[j] = i]]

\* iter().position(|key| key.eq(sum)): the first index (from 0) holding sum,
\* or -1 for Option::None.
position(v, sum) ==
    IF \E j \in 1..Len(v) : v[j] = sum
    THEN (CHOOSE j \in 1..Len(v) : v[j] = sum /\ \A m \in 1..(j - 1) : v[m] # sum) - 1
    ELSE -1

\* Vec::remove(index), index from 0.
VecRemove(v, index) == SubSeq(v, 1, index) \o SubSeq(v, index + 2, Len(v))

\* MapInsert with the bug of keeping an existing entry (first write wins).
MapInsert_KeepFirst(m, key, value) ==
    [h \in (DOMAIN m) \cup {key} |-> IF h \in DOMAIN m THEN m[h] ELSE value]

\* HashMap::insert(key, value): an existing entry is overwritten.
MapInsert(m, key, value) ==
    [h \in (DOMAIN m) \cup {key} |-> IF h = key THEN value ELSE m[h]]

\* MapRemove with the bug of leaving the entry in place.
MapRemove_Leak(m, key) == m

\* HashMap::remove(key): no effect when the key is absent.
MapRemove(m, key) == [h \in (DOMAIN m) \ {key} |-> m[h]]

EmptyMap == [h \in {} |-> << >>]

\* ------------------------------------------------------ private helpers

\* Consistant::contains
contains(ms, name) == name \in ms

\* Consistant::get_key_index: the index (from 0) of the first element of
\* sorted_keys greater than sum, or 0 when there is none.
get_key_index(keys, sum) ==
    IF \E j \in 1..Len(keys) : sum < keys[j]
    THEN (CHOOSE j \in 1..Len(keys) :
              sum < keys[j] /\ \A m \in 1..(j - 1) : ~(sum < keys[m])) - 1
    ELSE 0

\* Consistant::get_i_from_circle: the owner of hash i, or unreachable!().
get_i_from_circle(c, i) == IF i \in DOMAIN c THEN c[i] ELSE Unreachable

\* The loop of add (lines 53-57), from index i on.
RECURSIVE AddLoop(_, _, _, _)
AddLoop(c, keys, s, i) ==
    IF i >= replicas_num THEN [circle |-> c, sorted_keys |-> keys]
    ELSE LET sum == checksum_ieee(generate_element_name(s, i))
         IN  AddLoop(MapInsert(c, sum, s), Append(keys, sum), s, i + 1)

\* RemoveLoop with the bug of removing element i of sorted_keys, the loop
\* index, instead of the index that position() found.
RECURSIVE RemoveLoop_LoopIndex(_, _, _, _)
RemoveLoop_LoopIndex(c, keys, s, i) ==
    IF i >= replicas_num THEN [circle |-> c, sorted_keys |-> keys, panicked |-> FALSE]
    ELSE LET sum == checksum_ieee(generate_element_name(s, i))
             c2 == MapRemove(c, sum)
             index == position(keys, sum)
         IN  IF index = -1
             THEN [circle |-> c2, sorted_keys |-> keys, panicked |-> TRUE]
             ELSE RemoveLoop_LoopIndex(c2, VecRemove(keys, Min(i, Len(keys) - 1)), s, i + 1)

\* RemoveLoop with the bug of stopping after the first virtual point.
RemoveLoop_FirstOnly(c, keys, s, i) ==
    LET sum == checksum_ieee(generate_element_name(s, 0))
        index == position(keys, sum)
    IN  IF index = -1
        THEN [circle |-> MapRemove(c, sum), sorted_keys |-> keys, panicked |-> TRUE]
        ELSE [circle |-> MapRemove(c, sum), sorted_keys |-> VecRemove(keys, index),
              panicked |-> FALSE]

\* The loop of remove (lines 110-118), from index i on; panicked when the
\* unreachable!() of line 116 is executed.
RECURSIVE RemoveLoop(_, _, _, _)
RemoveLoop(c, keys, s, i) ==
    IF i >= replicas_num THEN [circle |-> c, sorted_keys |-> keys, panicked |-> FALSE]
    ELSE LET sum == checksum_ieee(generate_element_name(s, i))
             c2 == MapRemove(c, sum)
             index == position(keys, sum)
         IN  IF index = -1
             THEN [circle |-> c2, sorted_keys |-> keys, panicked |-> TRUE]
             ELSE RemoveLoop(c2, VecRemove(keys, index), s, i + 1)

\* The virtual points of the node names in S: (name, replica index) pairs.
Points(S) == { << s, i >> : s \in S, i \in 0..(replicas_num - 1) }

PointHash(pt) == checksum_ieee(generate_element_name(pt[1], pt[2]))

\* Absent hash collisions among the nodes in S: no two different
\* (name, replica index) pairs have the same checksum.
CollisionFree(S) ==
    \A p1, p2 \in Points(S) : PointHash(p1) = PointHash(p2) => p1 = p2


\* ------------------------------------------------- the operations' bodies

\* add_body without the membership test of lines 49-51.
add_body_NoMemberTest(r, s) ==
    LET l == AddLoop(r.circle, r.sorted_keys, s, 0)
    IN  [circle |-> l.circle,
         sorted_keys |-> sort(l.sorted_keys),
         members |-> r.members \cup {s}]

\* add after its lock statement (lines 48-60): the ring it leaves.
add_body(r, s) ==
    IF contains(r.members, s) THEN r
    ELSE LET l == AddLoop(r.circle, r.sorted_keys, s, 0)
         IN  [circle |-> l.circle,
              sorted_keys |-> sort(l.sorted_keys),
              members |-> r.members \cup {s}]

\* remove_body without the membership test of lines 106-108.
remove_body_NoMemberTest(r, s) ==
    LET l == RemoveLoop(r.circle, r.sorted_keys, s, 0)
    IN  [ring |-> [circle |-> l.circle,
                   sorted_keys |-> l.sorted_keys,
                   members |-> IF l.panicked THEN r.members
                               ELSE r.members \ {s}],
         panicked |-> l.panicked]

\* remove_body without members.remove(s) of line 120.
remove_body_KeepMember(r, s) ==
    IF ~contains(r.members, s) THEN [ring |-> r, panicked |-> FALSE]
    ELSE LET l == RemoveLoop(r.circle, r.sorted_keys, s, 0)
         IN  [ring |-> [circle |-> l.circle,
                        sorted_keys |-> l.sorted_keys,
                        members |-> r.members],
              panicked |-> l.panicked]

\* remove after its lock statement (lines 105-120): the ring it leaves, and
\* whether it panicked on the way (members is then not yet updated).
remove_body(r, s) ==
    IF ~contains(r.members, s) THEN [ring |-> r, panicked |-> FALSE]
    ELSE LET l == RemoveLoop(r.circle, r.sorted_keys, s, 0)
         IN  [ring |-> [circle |-> l.circle,
                        sorted_keys |-> l.sorted_keys,
                        members |-> IF l.panicked THEN r.members
                                    ELSE r.members \ {s}],
              panicked |-> l.panicked]

\* get after its lock statement (lines 65-70): the value returned, or Panic.
get_body(r, name) ==
    IF Cardinality(DOMAIN r.circle) = 0 THEN None
    ELSE LET key == r.sorted_keys[get_key_index(r.sorted_keys, checksum_ieee(name)) + 1]
             owner == get_i_from_circle(r.circle, key)
         IN  IF owner = Unreachable THEN Panic ELSE Some(owner)

\* count_body with the bug of counting the virtual points.
count_body_Keys(r) == Len(r.sorted_keys)

\* count after its lock statement (line 43).
count_body(r) == Cardinality(r.members)

\* The test of line 95 that ends get_n's loop.
loop_break(v, cnt) == Len(v) = cnt

\* res.contains(&element)
vec_contains(v, element) == \E j \in 1..Len(v) : v[j] = element

\* ---------------------------------------------------------------- actions

Init ==
    /\ hp \in HashParams
    /\ replicas_num \in ReplicaChoices
    /\ circle = EmptyMap
    /\ members = {}
    /\ sorted_keys = << >>
    /\ lock = "free"
    /\ pc = "idle"
    /\ call = NoCall
    /\ start = 0
    /\ res = << >>
    /\ count = 0
    /\ ret = Unit
    /\ log = << >>
    /\ added = {}
    /\ collided = FALSE
    /\ last = Pending

\* The log once a call of op begins.  The arguments of the reads are kept
\* in call only.
Logged(op, name) ==
    IF op \in {"add", "remove"}
    THEN << [op |-> op, name |-> name, pre |-> Ring] >>
             \o SubSeq(log, 1, IF Len(log) > 0 THEN 1 ELSE 0)
    ELSE << [op |-> op, name |-> << >>, pre |-> Ring] >>

\* The caller calls op(name, n) and arrives at the operation's lock
\* statement.
Call(op, name, n) ==
    /\ call' = [op |-> op, name |-> name, n |-> n]
    /\ pc' = "call"
    /\ ret' = Pending
    /\ log' = Logged(op, name)
    /\ last' = IF op \in {"get", "get_n"} /\ call = [op |-> op, name |-> name, n |-> n]
               THEN ret ELSE Pending
    /\ UNCHANGED << hp, replicas_num, circle, members, sorted_keys, lock,
                    start, res, count, added, collided >>

AddCall(x) ==
    /\ pc = "idle"
    /\ Call("add", x, 0)

RemoveCall(x) ==
    /\ pc = "idle"
    /\ Call("remove", x, 0)

GetCall(k) ==
    /\ pc = "idle"
    /\ Call("get", k, 0)

GetNCall(k, n) ==
    /\ pc = "idle"
    /\ Call("get_n", k, n)

CountCall ==
    /\ pc = "idle"
    /\ Call("count", << >>, 0)

\* RwLock::write() returns once no guard is alive, RwLock::read() once no
\* write guard is alive; until then the caller blocks.
Available(mode) == IF mode = "write" THEN lock = "free" ELSE lock # "write"

\* The first half of each operation's lock statement: the guard is acquired.
\* self.lock.write() of add (line 47) and remove (line 104), self.lock.read()
\* of count (line 42), get (line 64) and get_n (line 74).
Acquire ==
    /\ pc = "call"
    /\ LET mode == IF call.op \in {"add", "remove"} THEN "write" ELSE "read"
       IN  /\ Available(mode)
           /\ lock' = mode
    /\ pc' = "locked"
    /\ UNCHANGED << hp, replicas_num, circle, members, sorted_keys, call,
                    start, res, count, ret, log, added, collided, last >>

\* DropGuard with the bug of leaking the guard (the lock stays locked).
DropGuard_Leaked ==
    /\ pc = "locked"
    /\ pc' = "body"
    /\ UNCHANGED << hp, replicas_num, circle, members, sorted_keys, lock, call,
                    start, res, count, ret, log, added, collided, last >>

\* The second half of the lock statement, `let _ = ...;`: the pattern _ binds
\* nothing, so the guard is a temporary that is dropped at the end of the
\* statement, before the body runs.
DropGuard ==
    /\ pc = "locked"
    /\ lock' = "free"
    /\ pc' = "body"
    /\ UNCHANGED << hp, replicas_num, circle, members, sorted_keys, call,
                    start, res, count, ret, log, added, collided, last >>

\* A return to the caller with value v.
Return(v) ==
    /\ pc' = "idle"
    /\ ret' = v
    /\ start' = 0
    /\ res' = << >>
    /\ count' = 0

\* A panic: the caller's thread unwinds and the ring is used no more.
Unwind ==
    /\ pc' = "panicked"
    /\ ret' = Panic

AddBody ==
    /\ pc = "body" /\ call.op = "add"
    /\ LET r == add_body(Ring, call.name)
       IN  /\ circle' = r.circle
           /\ sorted_keys' = r.sorted_keys
           /\ members' = r.members
    /\ added' = added \cup {call.name}
    /\ collided' = (collided \/ (~contains(members, call.name)
                                   /\ ~CollisionFree(members \cup {call.name})))
    /\ Return(Unit)
    /\ UNCHANGED << hp, replicas_num, lock, call, log, last >>

RemoveBody ==
    /\ pc = "body" /\ call.op = "remove"
    /\ LET r == remove_body(Ring, call.name)
       IN  /\ circle' = r.ring.circle
           /\ sorted_keys' = r.ring.sorted_keys
           /\ members' = r.ring.members
           /\ IF r.panicked
              THEN Unwind /\ UNCHANGED << start, res, count, added >>
              ELSE Return(Unit) /\ added' = added \ {call.name}
    /\ UNCHANGED << hp, replicas_num, lock, call, log, collided, last >>

\* GetBody with the bug of taking the point it finds off the ring.
GetBody_Evict ==
    /\ pc = "body" /\ call.op = "get"
    /\ LET v == get_body(Ring, call.name)
       IN  /\ IF v = Panic
              THEN Unwind /\ UNCHANGED << start, res, count >>
              ELSE Return(v)
           /\ circle' = IF Cardinality(DOMAIN circle) = 0 THEN circle
                        ELSE MapRemove(circle,
                                 sorted_keys[get_key_index(sorted_keys,
                                                 checksum_ieee(call.name)) + 1])
    /\ UNCHANGED << hp, replicas_num, members, sorted_keys, lock, call, log,
                    added, collided, last >>

GetBody ==
    /\ pc = "body" /\ call.op = "get"
    /\ LET v == get_body(Ring, call.name)
       IN  IF v = Panic
           THEN Unwind /\ UNCHANGED << start, res, count >>
           ELSE Return(v)
    /\ UNCHANGED << hp, replicas_num, circle, members, sorted_keys, lock, call,
                    log, added, collided, last >>

CountBody ==
    /\ pc = "body" /\ call.op = "count"
    /\ Return(Some(<< count_body(Ring) >>))
    /\ UNCHANGED << hp, replicas_num, circle, members, sorted_keys, lock, call,
                    log, added, collided, last >>

\* get_n on lines 75-77: the early return; otherwise get_n goes on to the
\* first self.count() of line 78.
GetNBody ==
    /\ pc = "body" /\ call.op = "get_n"
    /\ IF call.n = 0 \/ Cardinality(DOMAIN circle) = 0
       THEN Return(None)
       ELSE pc' = "count1" /\ UNCHANGED << start, res, count, ret >>
    /\ UNCHANGED << hp, replicas_num, circle, members, sorted_keys, lock, call,
                    log, added, collided, last >>

\* The lock statement of count (line 42) when get_n calls it on line 78:
\* the read guard is acquired.
CountAcquire ==
    /\ pc \in {"count1", "count2"}
    /\ Available("read")
    /\ lock' = "read"
    /\ pc' = IF pc = "count1" THEN "count1_locked" ELSE "count2_locked"
    /\ UNCHANGED << hp, replicas_num, circle, members, sorted_keys, call,
                    start, res, count, ret, log, added, collided, last >>

\* The rest of count when get_n calls it: the guard is dropped (the end of
\* line 42), members.len() is returned (line 43) and line 78 goes on: with
\* the first value, to `n` when it is greater than n and to the second
\* self.count() otherwise; with the second value, to `count`.
CountReturn ==
    /\ pc \in {"count1_locked", "count2_locked"}
    /\ lock' = "free"
    /\ IF pc = "count1_locked"
       THEN IF count_body(Ring) > call.n
            THEN count' = call.n /\ pc' = "first"
            ELSE count' = count /\ pc' = "count2"
       ELSE count' = count_body(Ring) /\ pc' = "first"
    /\ UNCHANGED << hp, replicas_num, circle, members, sorted_keys, call,
                    start, res, ret, log, added, collided, last >>

\* get_n on lines 79-83: start and the first element.
GetNFirst ==
    /\ pc = "first"
    /\ LET st == get_key_index(sorted_keys, checksum_ieee(call.name))
           element == get_i_from_circle(circle, sorted_keys[st + 1])
       IN  IF element = Unreachable
           THEN Unwind /\ UNCHANGED << start, res, count >>
           ELSE /\ start' = st
                /\ res' = << element >>
                /\ pc' = "loop"
                /\ UNCHANGED << count, ret >>
    /\ UNCHANGED << hp, replicas_num, circle, members, sorted_keys, lock, call,
                    log, added, collided, last >>

\* One iteration of get_n's loop (lines 85-98), and the return of line 100
\* when the iteration ends in break.
GetNLoop ==
    /\ pc = "loop"
    /\ LET st == IF start + 1 >= Len(sorted_keys) THEN 0 ELSE start + 1
           element == get_i_from_circle(circle, sorted_keys[st + 1])
           v == IF vec_contains(res, element) THEN res ELSE Append(res, element)
       IN  IF element = Unreachable
           THEN Unwind /\ start' = st /\ UNCHANGED << res, count >>
           ELSE IF loop_break(v, count)
                THEN Return(Some(v))
                ELSE /\ start' = st
                     /\ res' = v
                     /\ UNCHANGED << pc, count, ret >>
    /\ UNCHANGED << hp, replicas_num, circle, members, sorted_keys, lock, call,
                    log, added, collided, last >>

Next ==
    \/ \E x \in Names : AddCall(x)
    \/ \E x \in Names : RemoveCall(x)
    \/ \E k \in Keys : GetCall(k)
    \/ \E k \in Keys, n \in 0..MaxN : GetNCall(k, n)
    \/ CountCall
    \/ Acquire
    \/ DropGuard
    \/ AddBody
    \/ RemoveBody
    \/ GetBody
    \/ CountBody
    \/ GetNBody
    \/ CountAcquire
    \/ CountReturn
    \/ GetNFirst
    \/ GetNLoop

Spec == Init /\ [][Next]_vars

\* All operations run to completion on the caller's thread: once a call is
\* made, its lock statement is executed and, for a read (get, get_n, count),
\* each of its steps that can be taken is eventually taken.  Nothing obliges
\* the caller to make another call.  (The bodies of add and remove are single
\* steps; no property checked under FairSpec needs them to be taken.)
FairSpec ==
    /\ Spec
    /\ WF_vars(Acquire) /\ WF_vars(DropGuard)
    /\ WF_vars(GetBody) /\ WF_vars(CountBody)
    /\ WF_vars(GetNBody) /\ WF_vars(CountAcquire) /\ WF_vars(CountReturn)
    /\ WF_vars(GetNFirst) /\ WF_vars(GetNLoop)

\* ------------------------------------------------------------ vocabulary

\* The set of the elements of a sequence.
Range(v) == { v[j] : j \in 1..Len(v) }

\* The successor point of hash h among the hashes of keys (a non-empty
\* sequence): the smallest hash strictly greater than h, or the smallest
\* hash of all when there is none.
SuccessorHash(keys, h) ==
    LET hs == Range(keys)
        above == { x \in hs : x > h }
    IN  IF above # {}
        THEN CHOOSE x \in above : \A y \in above : x <= y
        ELSE CHOOSE x \in hs : \A y \in hs : x <= y

\* The last call has completed: it returned or it panicked.
Completed(op) == call.op = op /\ pc \in {"idle", "panicked"}

\* No entry of r.sorted_keys is without an owner in r.circle (an ownerless
\* entry is what an earlier collision leaves behind).
NoStale(r) == Range(r.sorted_keys) \subseteq DOMAIN r.circle

\* The checksum in use maps different virtual-point names to different
\* values.
ChecksumInjective ==
    \A p1, p2 \in Points(Names) :
        PointHash(p1) = PointHash(p2)
            => generate_element_name(p1[1], p1[2]) = generate_element_name(p2[1], p2[2])

\* The keys the claims about get are probed with: Keys and the names of
\* the virtual points themselves.
ProbeKeys == Keys \cup { generate_element_name(pt[1], pt[2]) : pt \in Points(Names) }

\* v without its repeated elements, first occurrences kept.
Dedup(v) ==
    LET first == { j \in 1..Len(v) : \A m \in 1..(j - 1) : v[m] # v[j] }
    IN  [i \in 1..Cardinality(first) |->
            v[CHOOSE j \in first : Cardinality({ m \in first : m < j }) = i - 1]]

\* The node names in the order in which their points are first met when
\* walking the hashes of r.sorted_keys ascending from the successor of h,
\* with wrap-around.
RingWalk(r, h) ==
    LET hs == Range(r.sorted_keys)
        succ == SuccessorHash(r.sorted_keys, h)
        Up(S) == sort(Dedup(SelectSeq(r.sorted_keys, LAMBDA x : x \in S)))
        order == Up({ x \in hs : x >= succ }) \o Up({ x \in hs : x < succ })
    IN  Dedup([j \in 1..Len(order) |-> get_i_from_circle(r.circle, order[j])])

\* The node names that own a point of circle c.
Owners(c) == { c[h] : h \in DOMAIN c }

\* The number of elements of v equal to x.
Occurrences(v, x) == Cardinality({ j \in 1..Len(v) : v[j] = x })

\* The virtual points of the nodes in S whose hash is h.
PointsAt(S, h) == { pt \in Points(S) : PointHash(pt) = h }

\* A call of get_n that is past its early return: n >= 1 on a ring with
\* at least one point.
GetNRuns == call.op = "get_n" /\ pc = "body" /\ call.n >= 1 /\ DOMAIN circle # {}

\* --------------------------------------------------------------- claims

\* C1: on a ring with at least one point, get(key) returns the owner of the
\* smallest hash in sorted_keys strictly greater than hash(key), or of the
\* smallest hash of all when there is none.
C1_GetReturnsSuccessorOwner ==
    (Completed("get") /\ DOMAIN circle # {} /\ ChecksumInjective) =>
        LET h == SuccessorHash(sorted_keys, checksum_ieee(call.name))
        IN  h \in DOMAIN circle /\ ret = Some(circle[h])

\* C2: on a non-empty ring and for n >= 1, get_n(key, n) returns a sequence
\* of length exactly min(n, count()).
C2_GetNLength ==
    [](GetNRuns /\ CollisionFree(Names)
         => <>(pc = "idle" /\ ret.kind = "Some"
                 /\ Len(ret.val) = Min(call.n, Cardinality(members))))

\* C3: get_n always terminates: its collection loop eventually reaches the
\* break and get_n returns.
C3_GetNTerminates ==
    [](pc = "loop" /\ CollisionFree(Names) => <>(pc = "idle"))

\* C4: on a non-empty ring and for n >= 1, get_n(key, n) returns a sequence
\* without repeated names, whose first element is get(key) and whose
\* elements are in ring-walk order from the key's successor point.
C4_GetNOrder ==
    [](GetNRuns /\ CollisionFree(Names)
         => <>(/\ pc = "idle"
               /\ LET walk == RingWalk(Ring, checksum_ieee(call.name))
                  IN  /\ Len(walk) = Cardinality(members)
                      /\ ret = Some(SubSeq(walk, 1, Min(call.n, Cardinality(members))))
                      /\ Some(ret.val[1]) = get_body(Ring, call.name)
                      /\ \A i, j \in 1..Len(ret.val) : ret.val[i] = ret.val[j] => i = j))

\* C5: minimal redistribution, absent hash collisions: after add(X) every
\* key's get is the node it was before or X; after remove(X) of a member X
\* every key whose get was not X keeps its get.
C5_MinimalRedistribution ==
    (/\ pc = "idle" /\ call.op \in {"add", "remove"}
     /\ CollisionFree(log[1].pre.members \cup {call.name})
     /\ NoStale(log[1].pre))
    => \A k \in ProbeKeys :
         LET before == get_body(log[1].pre, k)
             after == get_body(Ring, k)
         IN  /\ call.op = "add" => after \in {before, Some(call.name)}
             /\ (call.op = "remove" /\ call.name \in log[1].pre.members
                   /\ before # Some(call.name)) => after = before

\* C5 witness: a collision-free add after which some key has moved to the
\* new node, followed by a remove of a member after which one key has left
\* the removed node and another has kept its node.
C5_Witness ==
    /\ pc = "idle" /\ call.op = "remove" /\ Len(log) = 2 /\ log[2].op = "add"
    /\ call.name \in log[1].pre.members
    /\ Cardinality(members) >= 1
    /\ CollisionFree(log[2].pre.members \cup {log[2].name, call.name})
    /\ NoStale(log[2].pre) /\ NoStale(log[1].pre)
    /\ \E k \in ProbeKeys :
         /\ get_body(log[2].pre, k) # get_body(log[1].pre, k)
         /\ get_body(log[2].pre, k) # None
    /\ \E k \in ProbeKeys : get_body(log[1].pre, k) = Some(call.name)
    /\ \E k \in ProbeKeys : get_body(log[1].pre, k) # Some(call.name)

\* C6: the lock is held for the whole of each operation: while the body of
\* add or remove runs the write guard is alive, and while the body of get,
\* get_n or count runs the read guard is alive.
C6_LockHeldThroughout ==
    pc \in {"body", "loop"} =>
        lock = (IF call.op \in {"add", "remove"} THEN "write" ELSE "read")

\* C7: remove is the exact inverse of add: add(x) of a non-member x followed
\* by remove(x) restores circle, sorted_keys and members (absent hash
\* collisions between x and the members).
C7_RemoveInvertsAdd ==
    (/\ Completed("remove") /\ Len(log) = 2
     /\ log[2].op = "add" /\ log[2].name = call.name
     /\ call.name \notin log[2].pre.members
     /\ CollisionFree(log[2].pre.members \cup {call.name}))
    => pc = "idle" /\ Ring = log[2].pre

\* C7 witness: add(x) then remove(x) on a ring that already had a member,
\* whose points lie on both sides of a point of x.
C7_Witness ==
    /\ pc = "idle" /\ call.op = "remove" /\ Len(log) = 2
    /\ log[2].op = "add" /\ log[2].name = call.name
    /\ call.name \notin log[2].pre.members
    /\ log[2].pre.members # {}
    /\ CollisionFree(log[2].pre.members \cup {call.name})
    /\ \E j \in 2..(Len(log[1].pre.sorted_keys) - 1) :
         /\ log[1].pre.circle[log[1].pre.sorted_keys[j]] = call.name
         /\ log[1].pre.circle[log[1].pre.sorted_keys[j - 1]] # call.name
         /\ log[1].pre.circle[log[1].pre.sorted_keys[j + 1]] # call.name

\* C8: add is idempotent: a second add(x) right after add(x) leaves circle,
\* sorted_keys and members as the first add left them, and raises no error.
C8_AddIdempotent ==
    (/\ Completed("add") /\ Len(log) = 2
     /\ log[2].op = "add" /\ log[2].name = call.name)
    => pc = "idle" /\ ret = Unit /\ Ring = log[1].pre

\* C8 witness: add(x) twice, the first of them adding x to the ring.
C8_Witness ==
    /\ pc = "idle" /\ call.op = "add" /\ Len(log) = 2
    /\ log[2].op = "add" /\ log[2].name = call.name
    /\ call.name \notin log[2].pre.members
    /\ call.name \in members
    /\ Len(sorted_keys) > replicas_num

\* C9: remove(x) of a name x that is not a member leaves circle,
\* sorted_keys and members unchanged and raises no error.
C9_RemoveNonMemberNoOp ==
    (Completed("remove") /\ call.name \notin log[1].pre.members)
    => pc = "idle" /\ ret = Unit /\ Ring = log[1].pre

\* C9 witness: remove(x) twice on a ring that keeps another member: x was a
\* member and has already been removed when the second call runs.
C9_Witness ==
    /\ pc = "idle" /\ call.op = "remove" /\ Len(log) = 2
    /\ log[2].op = "remove" /\ log[2].name = call.name
    /\ call.name \in log[2].pre.members
    /\ call.name \notin log[1].pre.members
    /\ members # {}

\* C10: the internal-consistency failure is unreachable: no call ever
\* executes unreachable!() (line 116 in remove, line 126 in
\* get_i_from_circle), whatever the node names.
C10_NeverUnreachable == (pc = "panicked") => ~ChecksumInjective

\* C11: after any sequence of add and remove, a node returned by get is a
\* member; once remove(x) has run and x has not been added again (x is not
\* among the names whose most recent add or remove was an add), no key's
\* get is x.
C11_GetReturnsMember ==
    /\ (Completed("get") /\ ret.kind = "Some") => ret.val \in members
    /\ pc = "idle" =>
         \A k \in ProbeKeys, x \in Names \ added : get_body(Ring, k) # Some(x)

\* C11 witness: remove(x) of a member x has run, and a key whose get was x
\* before now gets another node.
C11_Witness ==
    /\ pc = "idle" /\ call.op = "remove"
    /\ call.name \in log[1].pre.members
    /\ \E k \in ProbeKeys :
         /\ get_body(log[1].pre, k) = Some(call.name)
         /\ get_body(Ring, k).kind = "Some"

\* C12: in every state reachable by add and remove in which no add has met
\* a hash collision, sorted_keys is sorted ascending and holds exactly the
\* keys of circle, each key once.
C12_SortedKeysAreCircleKeys ==
    ~collided =>
        /\ \A j \in 1..(Len(sorted_keys) - 1) : sorted_keys[j] < sorted_keys[j + 1]
        /\ Range(sorted_keys) = DOMAIN circle

\* C12 witness: without a collision so far, remove(x) has taken a point of x
\* from between two points of other nodes, and points remain.
C12_Witness ==
    /\ pc = "idle" /\ call.op = "remove" /\ ~collided
    /\ call.name \in log[1].pre.members
    /\ Len(sorted_keys) >= 2
    /\ \E j \in 2..(Len(log[1].pre.sorted_keys) - 1) :
         /\ log[1].pre.circle[log[1].pre.sorted_keys[j]] = call.name
         /\ log[1].pre.circle[log[1].pre.sorted_keys[j - 1]] # call.name
         /\ log[1].pre.circle[log[1].pre.sorted_keys[j + 1]] # call.name
         /\ sorted_keys[j - 1] = log[1].pre.sorted_keys[j - 1]

\* C13 as stated: in every state reachable by add and remove with
\* replicas_num >= 1, members is exactly the set of the node names that own
\* a point of circle.
C13_MembersAreOwners == members = Owners(circle)

\* C13 as amended: every point's owner is a member; and, as long as no add
\* has met a hash collision, every member owns at least one point.
C13_MembersAreOwnersAbsentCollisions ==
    /\ Owners(circle) \subseteq members
    /\ ~collided => members \subseteq Owners(circle)

\* C13 witness: without a collision so far, a member has been removed from
\* a ring of several members and the remaining members own the points.
C13_Witness ==
    /\ pc = "idle" /\ call.op = "remove" /\ ~collided
    /\ call.name \in log[1].pre.members
    /\ Cardinality(members) >= 2
    /\ members = Owners(circle)

\* C14: scale invariant: with a checksum that is injective on strings, after
\* any sequence of add and remove that leaves m members, circle has exactly
\* m * replicas_num entries and sorted_keys exactly m * replicas_num
\* elements, whatever the node names.
C14_ScaleInvariant ==
    (pc = "idle" /\ ChecksumInjective) =>
        /\ Cardinality(DOMAIN circle) = Cardinality(members) * replicas_num
        /\ Len(sorted_keys) = Cardinality(members) * replicas_num

\* C15: absence is signalled exactly for the empty ring and for n = 0:
\* get(key) returns None when count() = 0 and a node name when
\* count() >= 1; get_n(key, n) returns None when n = 0 or count() = 0 and a
\* sequence otherwise.  (Stated for a checksum that is injective on strings.)
C15_AbsenceSignalling ==
    /\ (Completed("get") /\ ChecksumInjective) =>
         IF Cardinality(members) = 0 THEN ret = None
         ELSE ret.kind = "Some" /\ ret.val \in members
    /\ (Completed("get_n") /\ ChecksumInjective) =>
         IF call.n = 0 \/ Cardinality(members) = 0 THEN ret = None
         ELSE ret.kind = "Some"

\* C16: after any sequence of add and remove, contains(x) is true exactly
\* for the names x whose most recent add or remove was an add, and count()
\* returns the number of those names.
C16_CountAndContains ==
    /\ \A x \in Names : contains(members, x) <=> x \in added
    /\ pc = "idle" => count_body(Ring) = Cardinality(added)
    /\ Completed("count") => pc = "idle" /\ ret = Some(<< Cardinality(added) >>)

\* C16 witness: add(A); add(B); remove(A) on a ring of replicas_num >= 2:
\* one name is left, A is no member and B is one.
C16_Witness ==
    /\ pc = "idle" /\ call.op = "remove" /\ Len(log) = 2
    /\ log[2].op = "add" /\ log[2].name # call.name
    /\ log[2].pre.members = {call.name}
    /\ replicas_num >= 2
    /\ count_body(Ring) = 1
    /\ ~contains(members, call.name)
    /\ contains(members, log[2].name)

\* C17: get, get_n and count are read-only and deterministic: no step of
\* theirs changes circle, sorted_keys or members, and a call of get or get_n
\* that directly follows a call with the same arguments returns what that
\* call returned.
C17_ReadsReadOnlyDeterministic ==
    [][/\ call'.op \in {"get", "get_n", "count"}
            => UNCHANGED << circle, sorted_keys, members >>
       /\ (pc' = "idle" /\ call'.op \in {"get", "get_n"} /\ last' # Pending)
            => ret' = last']_vars

\* C17 witness: get_n has been called twice in a row with the same
\* arguments and has returned the same two names both times.
C17_Witness ==
    /\ pc = "idle" /\ call.op = "get_n"
    /\ last.kind = "Some" /\ Len(last.val) >= 2
    /\ ret = last

C19_CollisionBehaviour ==
    /\ (pc = "idle" /\ call.op = "add" /\ call.name \notin log[1].pre.members) =>
         \A pB \in Points({call.name}), pA \in Points(log[1].pre.members) :
            PointHash(pA) = PointHash(pB) =>
                LET v == PointHash(pB)
                IN  /\ v \in DOMAIN circle /\ circle[v] = call.name
                    /\ Occurrences(sorted_keys, v) >= 2
                    /\ Cardinality(PointsAt(members, v)) = 2
                         => Occurrences(sorted_keys, v) = 2
    /\ (pc = "idle" /\ call.op = "remove" /\ call.name \in log[1].pre.members) =>
         \A pX \in Points({call.name}), pO \in Points(log[1].pre.members \ {call.name}) :
            PointHash(pO) = PointHash(pX) =>
                LET v == PointHash(pX)
                IN  /\ v \notin DOMAIN circle
                    /\ Occurrences(sorted_keys, v) >= 1
                    /\ Cardinality(PointsAt(log[1].pre.members, v)) = 2
                         => Occurrences(sorted_keys, v) = 1

\* C19 witness: A then B were added with one point each at the same hash v
\* (circle mapped v to B, sorted_keys held v twice); A, the earlier of the
\* two, has been removed: v has left circle and is once in sorted_keys.
C19_Witness ==
    /\ pc = "idle" /\ call.op = "remove"
    /\ \E v \in Range(sorted_keys) :
         /\ v \notin DOMAIN circle
         /\ Occurrences(sorted_keys, v) = 1
         /\ Occurrences(log[1].pre.sorted_keys, v) = 2
         /\ Cardinality(PointsAt(log[1].pre.members, v)) = 2
         /\ v \in DOMAIN log[1].pre.circle
         /\ log[1].pre.circle[v] # call.name

\* C20: virtual-point names are unique per (node, replica): for two
\* different members a and b and replica indices i, j below replicas_num,
\* generate_element_name(a, i) and generate_element_name(b, j) differ; so,
\* with a checksum that is injective on strings, each member owns exactly
\* replicas_num points of circle.
C20_PointNamesUnique ==
    (pc = "idle" /\ call.op = "add") =>
        /\ \A a, b \in members : \A i, j \in 0..(replicas_num - 1) :
              a # b => generate_element_name(a, i) # generate_element_name(b, j)
        /\ ChecksumInjective =>
              \A x \in members :
                 Cardinality({ h \in DOMAIN circle : circle[h] = x }) = replicas_num

====
